---- MODULE Spec2Model ----
(***************************************************************************)
(* A model of nfs4_share.share.Share: a share directory that mirrors       *)
(* source files and directory trees with hardlinks and NFSv4 ACLs.         *)
(*                                                                         *)
(* The filesystem is a function from existing paths (sequences of names)   *)
(* to nodes.  A regular file node names an inode; the link count of an     *)
(* inode is the number of paths that name it, and its ACL is kept per      *)
(* inode (every hardlink shows the same ACL).  A directory node carries    *)
(* its own ACL.  An ACL is a set of access control entries.                *)
(*                                                                         *)
(* Every public method of Share is one action; the private methods are     *)
(* operators on a machine state st = [fs, iacl, prot, err, efile, log]     *)
(* that thread a pending exception (err, efile) and the sequence of        *)
(* filesystem calls issued so far (log).                                   *)
(***************************************************************************)
EXTENDS Integers, Sequences, FiniteSets, TLC

VARIABLES fs,        \* path -> node, for every path that exists
          iacl,      \* inode -> ACL of that inode
          protected, \* inodes the caller may not hardlink (fs.protect_hardlinks)
          alive,     \* a Share object is constructed on the directory
          locked,    \* history: the last lock()/unlock() that returned was lock()
          last,      \* history: the last operation, its arguments and outcome
          prev,      \* history: the name of the operation before the last one
          nops,      \* number of operations performed so far
          acl0       \* history: inode -> its ACL before the share touched it

vars == <<fs, iacl, protected, alive, locked, last, prev, nops, acl0>>

----------------------------------------------------------------------------
(* Bounds of the model *)

\* longest run of operations explored
MaxOps == 3

----------------------------------------------------------------------------
(* Paths, names and the universe of the model *)

\* Share.directory: the canonical path of the share
directory == <<"share">>

\* the order in which a directory listing returns names (ascending), the
\* reverse listing is the other order the model explores
NameRank == [n \in {"D", "f", "g", "s", "x", "data", "share"} |->
               CASE n = "D" -> 1 [] n = "f" -> 2 [] n = "g" -> 3 [] n = "s" -> 4
                 [] n = "x" -> 5 [] n = "data" -> 6 [] n = "share" -> 7]

Inodes == {1, 2, 3}

\* access control entries: the share's ambient entry, the share's lock entry
\* (D::EVERYONE@:wadNTo) and an entry the owner of an original put there
AceAmbient == "A::share-group:rxtncy"
AceLock == "D::EVERYONE@:wadNTo"
AceOwner == "A::OWNER@:rwatTnNcCy"
Ace == {AceAmbient, AceLock, AceOwner}

basename(p) == p[Len(p)]
dirname(p) == SubSeq(p, 1, Len(p) - 1)
join(d, name) == Append(d, name)
IsPrefix(d, p) == Len(d) <= Len(p) /\ SubSeq(p, 1, Len(d)) = d
Under(d, p) == Len(d) < Len(p) /\ SubSeq(p, 1, Len(d)) = d

DirNode(a) == [kind |-> "dir", ino |-> 0, acl |-> a]
FileNode(i) == [kind |-> "file", ino |-> i, acl |-> {}]

exists(st, p) == p \in DOMAIN st.fs
isfile(st, p) == p \in DOMAIN st.fs /\ st.fs[p].kind = "file"
isdir(st, p) == p \in DOMAIN st.fs /\ st.fs[p].kind = "dir"

\* st_nlink of an inode: the number of directory entries that name it
nlink(f, i) == Cardinality({p \in DOMAIN f : f[p].kind = "file" /\ f[p].ino = i})
st_nlink(st, p) == nlink(st.fs, st.fs[p].ino)

raise(st, e, p) == [st EXCEPT !.err = e, !.efile = p]
clear(st) == [st EXCEPT !.err = "none", !.efile = <<>>]
emit(st, ev, p) == [st EXCEPT !.log = Append(@, <<ev, p>>)]

RECURSIVE SortNames(_, _)
\* a set of names as the sequence a directory listing returns: ascending, or
\* descending when rev
SortNames(S, rev) ==
  IF S = {} THEN <<>>
  ELSE LET x == CHOOSE y \in S : \A z \in S :
                  IF rev THEN NameRank[z] <= NameRank[y] ELSE NameRank[y] <= NameRank[z]
       IN <<x>> \o SortNames(S \ {x}, rev)

\* os.walk's split of a directory listing into subdirectories and the rest
listdirs(st, d, rev) ==
  SortNames({basename(p) : p \in {q \in DOMAIN st.fs :
               dirname(q) = d /\ Len(q) = Len(d) + 1 /\ st.fs[q].kind = "dir"}}, rev)
listfiles(st, d, rev) ==
  SortNames({basename(p) : p \in {q \in DOMAIN st.fs :
               dirname(q) = d /\ Len(q) = Len(d) + 1 /\ st.fs[q].kind = "file"}}, rev)

----------------------------------------------------------------------------
(* The ACL collaborator (nfs4_share.acl): its interface as the             *)
(* specification gives it.  An AccessControlList is a set of entries.      *)

\* the ACL a path shows
AclAt(st, p) == IF st.fs[p].kind = "dir" THEN st.fs[p].acl ELSE st.iacl[st.fs[p].ino]

\* the paths one ACL write reaches: the target, and everything beneath it
\* when the write is recursive
AclScope(st, target, recursive) ==
  {q \in DOMAIN st.fs : q = target \/ (recursive /\ Under(target, q))}

\* the ACL that a write of acl in the given mode ("set", "append",
\* "unset") leaves on an object whose ACL was old
AclChange(mode, acl, old) ==
  CASE mode = "set" -> acl
    [] mode = "append" -> old \cup acl
    [] mode = "unset" -> old \ acl

\* every path of scope has its ACL rewritten; a regular file's ACL is its
\* inode's, so every other link of the inode shows the new ACL as well
AclWrite(st, scope, mode, acl) ==
  [st EXCEPT
     !.fs = [q \in DOMAIN st.fs |->
               IF q \in scope /\ st.fs[q].kind = "dir"
               THEN [st.fs[q] EXCEPT !.acl = AclChange(mode, acl, @)] ELSE st.fs[q]],
     !.iacl = [i \in DOMAIN st.iacl |->
               IF \E q \in scope : st.fs[q].kind = "file" /\ st.fs[q].ino = i
               THEN AclChange(mode, acl, st.iacl[i]) ELSE st.iacl[i]]]

\* AccessControlList.from_file(path)
acl_from_file(st, p) == AclAt(st, p)

\* AccessControlList - AccessControlList: set difference of the entries
acl_sub(a, b) == a \ b

\* acl.set(target): the target's ACL becomes exactly acl
acl_set(st, acl, target) ==
  IF st.err # "none" THEN st
  ELSE IF ~exists(st, target) THEN raise(st, "AclError", target)
  ELSE emit(AclWrite(st, {target}, "set", acl), "setfacl", target)

\* acl.append(target, recursive): the entries of acl are added
acl_append(st, acl, target, recursive) ==
  IF st.err # "none" THEN st
  ELSE IF ~exists(st, target) THEN raise(st, "AclError", target)
  ELSE emit(AclWrite(st, AclScope(st, target, recursive), "append", acl),
            "setfacl -a", target)

\* acl.unset(target, recursive): the entries of acl are removed
acl_unset(st, acl, target, recursive) ==
  IF st.err # "none" THEN st
  ELSE IF ~exists(st, target) THEN raise(st, "AclError", target)
  ELSE emit(AclWrite(st, AclScope(st, target, recursive), "unset", acl),
            "setfacl -x", target)

----------------------------------------------------------------------------
(* The filesystem calls share.py issues *)

\* the ACL a directory has the moment the filesystem creates it
NewDirAcl == {}

\* the proper ancestors of p that do not exist
MissingParents(st, p) ==
  {SubSeq(p, 1, k) : k \in 1..(Len(p) - 1)} \ DOMAIN st.fs

\* os.makedirs(p) with exist_ok false: creates p and its missing parents
os_makedirs(st, p) ==
  IF st.err # "none" THEN st
  ELSE IF exists(st, p) THEN raise(st, "FileExistsError", p)
  ELSE emit([st EXCEPT !.fs = [q \in MissingParents(st, p) \cup {p} |-> DirNode(NewDirAcl)]
                              @@ st.fs],
            "mkdir", p)

\* os.link(src, dst): the kernel resolves the new name first (ENOENT,
\* EEXIST) and then asks whether the caller may link the inode (EPERM)
os_link(st, src, dst) ==
  IF st.err # "none" THEN st
  ELSE IF ~isfile(st, src) THEN raise(st, "FileNotFoundError", src)
  ELSE IF ~isdir(st, dirname(dst)) THEN raise(st, "FileNotFoundError", src)
  ELSE IF exists(st, dst) THEN raise(st, "FileExistsError", src)
  ELSE IF st.fs[src].ino \in st.prot THEN raise(st, "PermissionError", src)
  ELSE emit([st EXCEPT !.fs = (dst :> FileNode(st.fs[src].ino)) @@ st.fs], "link", dst)

\* os.unlink(p); an inode that loses its last link is gone, and so is its ACL
os_unlink(st, p) ==
  IF st.err # "none" THEN st
  ELSE IF ~exists(st, p) THEN raise(st, "FileNotFoundError", p)
  ELSE IF isdir(st, p) THEN raise(st, "IsADirectoryError", p)
  ELSE LET i == st.fs[p].ino
           f == [q \in DOMAIN st.fs \ {p} |-> st.fs[q]]
       IN emit([st EXCEPT !.fs = f,
                          !.iacl = IF nlink(f, i) = 0 THEN [@ EXCEPT ![i] = {}] ELSE @],
               "unlink", p)

\* os.rmdir(p): fails when the directory is not empty
os_rmdir(st, p) ==
  IF st.err # "none" THEN st
  ELSE IF ~exists(st, p) THEN raise(st, "FileNotFoundError", p)
  ELSE IF ~isdir(st, p) THEN raise(st, "NotADirectoryError", p)
  ELSE IF \E q \in DOMAIN st.fs : Under(p, q) THEN raise(st, "OSError", p)
  ELSE emit([st EXCEPT !.fs = [q \in DOMAIN st.fs \ {p} |-> st.fs[q]]], "rmdir", p)

----------------------------------------------------------------------------
(* class Share: the private methods *)

\* Share.lock_acl: the single deny entry for EVERYONE
lock_acl == {AceLock}

\* Share.permissions (getter): the ACL of the share directory, read anew
permissions(st) == acl_from_file(st, directory)

\* _lock that leaves out recursive=True
_lock_shallow(st, target) == acl_append(st, lock_acl, target, FALSE)
\* _lock that takes the entry away again when the target carries it
_lock_toggle(st, target) ==
  IF exists(st, target) /\ lock_acl \subseteq acl_from_file(st, target)
  THEN acl_unset(st, lock_acl, target, TRUE)
  ELSE acl_append(st, lock_acl, target, TRUE)
_lock(st, target) == acl_append(st, lock_acl, target, TRUE)

\* _unlock that un-sets self.permissions in place of self.lock_acl
_unlock_permissions(st, target) == acl_unset(st, permissions(st), target, TRUE)
_unlock(st, target) == acl_unset(st, lock_acl, target, TRUE)

\* _makedir that creates the directory and does not set its permissions
_makedir_bare(st, d) == os_makedirs(st, d)

_makedir(st, d) ==
  LET s1 == os_makedirs(st, d)
  IN IF s1.err # "none" THEN s1 ELSE acl_set(s1, permissions(s1), d)

_unshare_dir(st, target) == os_rmdir(st, target)

\* _unshare_file without the link count check
_unshare_file_unguarded(st, target, force) ==
  IF st.err # "none" THEN st
  ELSE IF ~exists(st, target) THEN raise(st, "FileNotFoundError", target)
  ELSE LET new_permissions == acl_sub(acl_from_file(st, target), permissions(st))
       IN os_unlink(acl_set(st, new_permissions, target), target)

\* _unshare_file that checks the link count after it wrote the ACL
_unshare_file_guard_late(st, target, force) ==
  IF st.err # "none" THEN st
  ELSE IF ~exists(st, target) THEN raise(st, "FileNotFoundError", target)
  ELSE LET new_permissions == acl_sub(acl_from_file(st, target), permissions(st))
           s1 == acl_set(st, new_permissions, target)
       IN IF ~force /\ st_nlink(s1, target) = 1
          THEN raise(emit(s1, "logging.error", target), "FileNotFoundError", target)
          ELSE os_unlink(s1, target)

\* _unshare_file that unlinks before it writes the ACL
_unshare_file_unlink_first(st, target, force) ==
  IF st.err # "none" THEN st
  ELSE IF ~exists(st, target) THEN raise(st, "FileNotFoundError", target)
  ELSE IF ~force /\ st_nlink(st, target) = 1
       THEN raise(emit(st, "logging.error", target), "FileNotFoundError", target)
  ELSE LET new_permissions == acl_sub(acl_from_file(st, target), permissions(st))
       IN acl_set(os_unlink(st, target), new_permissions, target)

_unshare_file(st, target, force) ==
  IF st.err # "none" THEN st
  ELSE IF ~exists(st, target) THEN raise(st, "FileNotFoundError", target)
  ELSE IF ~force /\ st_nlink(st, target) = 1
       THEN raise(emit(st, "logging.error", target), "FileNotFoundError", target)
  ELSE LET new_permissions == acl_sub(acl_from_file(st, target), permissions(st))
       IN os_unlink(acl_set(st, new_permissions, target), target)

\* _link_files without the handler of FileExistsError: the error of the
\* link reaches the caller
_link_files_no_recovery(st, source, target) ==
  IF st.err # "none" THEN st
  ELSE LET s1 == _unlock(st, source)
           s2 == os_link(s1, source, target)
           s3 == IF s2.err # "none" THEN s2
                 ELSE acl_append(s2, permissions(s2), target, FALSE)
       IN IF s3.err = "PermissionError"
          THEN clear(emit(s3, "logging.error", s3.efile))
          ELSE s3

RECURSIVE _link_files(_, _, _)
_link_files(st, source, target) ==
  IF st.err # "none" THEN st
  ELSE LET s1 == _unlock(st, source)
           s2 == os_link(s1, source, target)
           s3 == IF s2.err # "none" THEN s2
                 ELSE acl_append(s2, permissions(s2), target, FALSE)
       IN IF s3.err = "PermissionError"
          THEN clear(emit(s3, "logging.error", s3.efile))
          ELSE IF s3.err = "FileExistsError"
          THEN _link_files(_unshare_file(clear(s3), target, FALSE), source, target)
          ELSE s3

RECURSIVE MakeDirs(_, _, _)
\* for subdir in subdirectories: self._makedir(os.path.join(share_root, subdir))
MakeDirs(st, share_root, subdirectories) ==
  IF subdirectories = <<>> THEN st
  ELSE MakeDirs(_makedir(st, join(share_root, Head(subdirectories))),
                share_root, Tail(subdirectories))

RECURSIVE LinkAll(_, _, _, _)
\* for file in files: self._link_files(join(root, file), join(share_root, file))
LinkAll(st, root, share_root, files) ==
  IF files = <<>> THEN st
  ELSE LinkAll(_link_files(st, join(root, Head(files)), join(share_root, Head(files))),
               root, share_root, Tail(files))

RECURSIVE DuplicateWalk(_, _, _, _, _)
RECURSIVE DuplicateSubs(_, _, _, _, _, _)
\* one step of os.walk(source_root), top-down, and its loop body
DuplicateWalk(st, source_root, within, root, rev) ==
  IF st.err # "none" \/ ~isdir(st, root) THEN st
  ELSE LET share_root == within \o SubSeq(root, Len(source_root) + 1, Len(root))
           subdirectories == listdirs(st, root, rev)
           files == listfiles(st, root, rev)
           s1 == MakeDirs(st, share_root, subdirectories)
           s2 == LinkAll(s1, root, share_root, files)
       IN DuplicateSubs(s2, source_root, within, root, subdirectories, rev)

\* a walk that does not descend below the source root
DuplicateSubs_pruned(st, source_root, within, root, subdirectories, rev) == st

\* os.walk descends into each subdirectory after the loop body ran on root
DuplicateSubs(st, source_root, within, root, subdirectories, rev) ==
  IF subdirectories = <<>> THEN st
  ELSE DuplicateSubs(DuplicateWalk(st, source_root, within,
                                   join(root, Head(subdirectories)), rev),
                     source_root, within, root, Tail(subdirectories), rev)

_duplicate_as_linked_tree(st, source_root, rev) ==
  LET within_share_dir_path == join(directory, basename(source_root))
  IN DuplicateWalk(_makedir(st, within_share_dir_path), source_root,
                   within_share_dir_path, source_root, rev)

RECURSIVE UnshareFiles(_, _, _, _)
\* for shared_file in files: self._unshare_file(join(root, shared_file), force)
UnshareFiles(st, root, files, force) ==
  IF files = <<>> THEN st
  ELSE UnshareFiles(_unshare_file(st, join(root, Head(files)), force),
                    root, Tail(files), force)

RECURSIVE UnshareDirs(_, _, _)
\* for sub_dir in subdirectories: self._unshare_dir(join(root, sub_dir))
UnshareDirs(st, root, subdirectories) ==
  IF subdirectories = <<>> THEN st
  ELSE UnshareDirs(_unshare_dir(st, join(root, Head(subdirectories))),
                   root, Tail(subdirectories))

RECURSIVE UnshareWalk(_, _, _, _)
RECURSIVE UnshareSubs(_, _, _, _, _)
\* one step of os.walk(directory, topdown=False): the listing of top is taken
\* first, the subdirectories are walked, then the loop body runs on top
UnshareWalk(st, top, force, rev) ==
  IF st.err # "none" \/ ~isdir(st, top) THEN st
  ELSE LET subdirectories == listdirs(st, top, rev)
           files == listfiles(st, top, rev)
           s1 == UnshareSubs(st, top, subdirectories, force, rev)
           s2 == UnshareFiles(s1, top, files, force)
       IN UnshareDirs(s2, top, subdirectories)

UnshareSubs(st, top, subdirectories, force, rev) ==
  IF subdirectories = <<>> THEN st
  ELSE UnshareSubs(UnshareWalk(st, join(top, Head(subdirectories)), force, rev),
                   top, Tail(subdirectories), force, rev)

\* _unshare_linked_tree without the os.rmdir of the directory itself
_unshare_linked_tree_keeps_root(st, d, force, rev) == UnshareWalk(st, d, force, rev)

_unshare_linked_tree(st, d, force, rev) ==
  os_rmdir(UnshareWalk(st, d, force, rev), d)

----------------------------------------------------------------------------
(* class Share: the public methods *)

\* Share.__init__(directory, exist_ok)
\* __init__ without the os.path.isfile check: os.makedirs meets the file
__init__unchecked(st, exist_ok) ==
  IF exists(st, directory)
  THEN IF exist_ok /\ isdir(st, directory) THEN st
       ELSE raise(st, "FileExistsError", directory)
  ELSE os_makedirs(st, directory)

__init__(st, exist_ok) ==
  IF exists(st, directory) /\ isfile(st, directory)
  THEN raise(st, "IllegalShareSetupError", directory)
  ELSE IF exists(st, directory)
  THEN IF exist_ok THEN st ELSE raise(st, "FileExistsError", directory)
  ELSE os_makedirs(st, directory)

\* Share.permissions (setter)
set_permissions(st, acl) == acl_set(st, acl, directory)

\* the loop over the file items of add, left after its first round
AddFiles_first_only(st, files) ==
  IF files = <<>> THEN st
  ELSE _link_files(st, Head(files), join(directory, basename(Head(files))))

RECURSIVE AddFiles(_, _)
\* for file in files: self._link_files(file, join(self.directory, basename(file)))
AddFiles(st, files) ==
  IF files = <<>> THEN st
  ELSE AddFiles(_link_files(st, Head(files), join(directory, basename(Head(files)))),
                Tail(files))

\* a directory item of add without the except FileExistsError branch
AddDirectory_no_recovery(st, d, rev) ==
  IF st.err # "none" THEN st ELSE _duplicate_as_linked_tree(st, d, rev)

\* the recovery of add that un-shares the whole share directory, not the
\* path the error names
AddDirectory_unshare_all(st, d, rev) ==
  IF st.err # "none" THEN st
  ELSE LET r == _duplicate_as_linked_tree(st, d, rev)
       IN IF r.err = "FileExistsError"
          THEN _duplicate_as_linked_tree(
                 _unshare_linked_tree(clear(r), directory, FALSE, rev), d, rev)
          ELSE r

\* the try/except around one directory item of add
AddDirectory(st, d, rev) ==
  IF st.err # "none" THEN st
  ELSE LET r == _duplicate_as_linked_tree(st, d, rev)
       IN IF r.err = "FileExistsError"
          THEN _duplicate_as_linked_tree(
                 _unshare_linked_tree(clear(r), r.efile, FALSE, rev), d, rev)
          ELSE r

RECURSIVE AddDirectories(_, _, _)
AddDirectories(st, directories, rev) ==
  IF directories = <<>> THEN st
  ELSE AddDirectories(AddDirectory(st, Head(directories), rev), Tail(directories), rev)

RECURSIVE LogUnhandled(_, _)
LogUnhandled(st, items) ==
  IF items = <<>> \/ st.err # "none" THEN st
  ELSE LogUnhandled(emit(st, "logging.error", Head(items)), Tail(items))

\* add that gives up on the whole call when an item is neither a file nor
\* a directory
add_all_or_nothing(st, items, rev) ==
  LET IsFile(i) == isfile(st, i)
      IsDir(i) == isdir(st, i)
      IsOther(i) == ~isfile(st, i) /\ ~isdir(st, i)
      files == SelectSeq(items, IsFile)
      directories == SelectSeq(items, IsDir)
  IN IF SelectSeq(items, IsOther) # <<>>
     THEN LogUnhandled(st, SelectSeq(items, IsOther))
     ELSE AddDirectories(AddFiles(st, files), directories, rev)

\* Share.add(items)
add(st, items, rev) ==
  LET IsFile(i) == isfile(st, i)
      IsDir(i) == isdir(st, i)
      IsOther(i) == ~isfile(st, i) /\ ~isdir(st, i)
      files == SelectSeq(items, IsFile)
      directories == SelectSeq(items, IsDir)
  IN LogUnhandled(AddDirectories(AddFiles(st, files), directories, rev),
                  SelectSeq(items, IsOther))

\* Share.lock()
lock(st) == _lock(st, directory)

\* Share.unlock()
unlock(st) == _unlock(st, directory)

\* Share.self_destruct(force_file_removal)
self_destruct(st, force_file_removal, rev) ==
  _unshare_linked_tree(st, directory, force_file_removal, rev)

----------------------------------------------------------------------------
(* The state machine *)

\* the originals: a file, and a directory tree holding a file of the same
\* base name and a subdirectory with one more file
SourceFiles == {<<"data", "f">>, <<"data", "D", "f">>, <<"data", "D", "s", "g">>}
SourceDirs == {<<"data">>, <<"data", "D">>, <<"data", "D", "s">>}
SourceInode == [p \in SourceFiles |->
                  CASE p = <<"data", "f">> -> 1
                    [] p = <<"data", "D", "f">> -> 2
                    [] p = <<"data", "D", "s", "g">> -> 3]

\* what a caller hands to add: files, directories and a path that does not exist
Items == {<<"data", "f">>, <<"data", "D", "f">>, <<"data", "D">>,
          <<"data", "D", "s">>, <<"data", "x">>}

\* the items a caller hands over together in one add call
PairItems == {<<"data", "f">>, <<"data", "D", "f">>, <<"data", "D">>}

\* the calls that hand over a path that does not exist next to one that does
UnhandledLists == {<<(<<"data", "x">>), (<<"data", "D">>)>>,
                   <<(<<"data", "f">>), (<<"data", "x">>)>>}

\* the item lists of add: every single item, every ordered pair of
\* different PairItems, and the UnhandledLists
ItemLists == {<<i>> : i \in Items}
               \cup ({<<i, j>> : i \in PairItems, j \in PairItems}
                       \ {<<i, i>> : i \in PairItems})
               \cup UnhandledLists

\* the listing orders that can make a difference to an add of items: a
\* directory is listed only when some item is a directory
ListingOrders(items) ==
  IF \E k \in 1..Len(items) : items[k] \in SourceDirs THEN BOOLEAN ELSE {FALSE}

\* the ACLs an original may carry before it is ever shared
InitialAcls == {{AceOwner}, {AceOwner, AceLock}, {AceOwner, AceAmbient}}
\* the ambient ACLs an administrator may give the share
ShareAcls == {{AceAmbient}, {AceAmbient, AceOwner}}

Machine == [fs |-> fs, iacl |-> iacl, prot |-> protected,
            err |-> "none", efile |-> <<>>, log |-> <<>>]

NoOp == [op |-> "none", items |-> <<>>, force |-> FALSE, again |-> FALSE,
         err |-> "none", efile |-> <<>>, log |-> <<>>]

\* the record of a call: again says that the call before it was the same
\* call with the same arguments and returned
Done(name, items, force, r) ==
  [op |-> name, items |-> items, force |-> force,
   again |-> (last.op = name /\ last.items = items /\ last.err = "none"),
   err |-> r.err, efile |-> r.efile, log |-> r.log]

Init ==
  /\ fs = [p \in SourceFiles \cup SourceDirs \cup {directory} |->
             IF p \in SourceFiles THEN FileNode(SourceInode[p])
             ELSE IF p = directory THEN DirNode({AceAmbient})
             ELSE DirNode({AceOwner})]
  /\ \E a \in InitialAcls : iacl = [i \in Inodes |-> IF i = 1 THEN a ELSE {AceOwner}]
  /\ protected \in {{}, {3}}
  /\ alive = TRUE
  /\ locked = FALSE
  /\ last = NoOp
  /\ prev = "none"
  /\ nops = 0
  /\ acl0 = iacl

Step(name, items, force, r) ==
  /\ fs' = r.fs
  /\ iacl' = r.iacl
  /\ last' = Done(name, items, force, r)
  /\ prev' = last.op
  /\ nops' = nops + 1
  /\ UNCHANGED <<protected, acl0>>

\* Share(directory, exist_ok); the record of the call keeps exist_ok in force
Construct(exist_ok) ==
  /\ nops < MaxOps
  /\ LET r == __init__(Machine, exist_ok)
     IN /\ Step("__init__", <<>>, exist_ok, r)
        /\ alive' = (alive \/ r.err = "none")
  /\ UNCHANGED locked

\* share.permissions = acl, on a share that holds nothing yet
SetPermissions(acl) ==
  /\ nops < MaxOps
  /\ alive
  /\ ~\E q \in DOMAIN fs : Under(directory, q)
  /\ Step("permissions", <<>>, FALSE, set_permissions(Machine, acl))
  /\ UNCHANGED <<alive, locked>>

Add(items, rev) ==
  /\ nops < MaxOps
  /\ alive
  /\ Step("add", items, FALSE, add(Machine, items, rev))
  /\ UNCHANGED <<alive, locked>>

Lock ==
  /\ nops < MaxOps
  /\ alive
  /\ Step("lock", <<>>, FALSE, lock(Machine))
  /\ locked' = TRUE
  /\ UNCHANGED alive

Unlock ==
  /\ nops < MaxOps
  /\ alive
  /\ Step("unlock", <<>>, FALSE, unlock(Machine))
  /\ locked' = FALSE
  /\ UNCHANGED alive

SelfDestruct(force, rev) ==
  /\ nops < MaxOps
  /\ alive
  /\ LET r == self_destruct(Machine, force, rev)
     IN /\ Step("self_destruct", <<>>, force, r)
        /\ alive' = (r.err # "none")
        /\ locked' = (locked /\ r.err # "none")

\* the owner of an original deletes it
RemoveOriginal(p) ==
  /\ nops < MaxOps
  /\ p \in DOMAIN fs
  /\ LET r == os_unlink(Machine, p)
     IN Step("rm", <<p>>, FALSE, r)
  /\ UNCHANGED <<alive, locked>>

\* somebody else puts a plain file (a hardlink of an original) at the path
\* of the share once the share is gone
PlaceFile(p) ==
  /\ nops < MaxOps
  /\ ~exists(Machine, directory)
  /\ isfile(Machine, p)
  /\ LET r == [Machine EXCEPT !.fs = [q \in DOMAIN fs \cup {directory} |->
                                       IF q = directory THEN FileNode(fs[p].ino)
                                       ELSE fs[q]]]
     IN Step("ln", <<p>>, FALSE, r)
  /\ UNCHANGED <<alive, locked>>

Next ==
  \/ \E exist_ok \in BOOLEAN : Construct(exist_ok)
  \/ \E acl \in ShareAcls : SetPermissions(acl)
  \/ \E items \in ItemLists : \E rev \in ListingOrders(items) : Add(items, rev)
  \/ Lock
  \/ Unlock
  \/ \E force \in BOOLEAN, rev \in BOOLEAN : SelfDestruct(force, rev)
  \/ \E p \in SourceFiles : RemoveOriginal(p)
  \/ \E p \in SourceFiles : PlaceFile(p)

Spec == Init /\ [][Next]_vars

\* the share as add, lock and unlock alone drive it
NextShare ==
  \/ \E items \in ItemLists : \E rev \in ListingOrders(items) : Add(items, rev)
  \/ Lock
  \/ Unlock

SpecShare == Init /\ [][NextShare]_vars

----------------------------------------------------------------------------
(* Properties *)

\* the paths at or under the share directory
SharePaths(f) == {p \in DOMAIN f : IsPrefix(directory, p)}
\* the regular files under the share directory
ShareFiles(f) == {p \in DOMAIN f : Under(directory, p) /\ f[p].kind = "file"}

\* the step is one call of add, lock, unlock or self_destruct without force
SafeCall ==
  /\ nops' = nops + 1
  /\ \/ last'.op \in {"add", "lock", "unlock"}
     \/ last'.op = "self_destruct" /\ ~last'.force

\* C1: no call of add, lock, unlock or self_destruct(force_file_removal=False)
\* takes the last link of an inode away: every inode that has a link before
\* the call has a link after it.
C1_ContentSurvives ==
  [][SafeCall => \A i \in Inodes : nlink(fs, i) >= 1 => nlink(fs', i) >= 1]_vars

\* C1 witness: a self_destruct without force met a file whose link in the
\* share is the only one left, and the file is still there.
C1_Witness ==
  /\ last.op = "self_destruct" /\ ~last.force
  /\ last.err = "FileNotFoundError"
  /\ last.efile \in ShareFiles(fs)
  /\ nlink(fs, fs[last.efile].ino) = 1

\* C2: un-sharing a file of link count 1 without force raises
\* FileNotFoundError and changes nothing: the file is still in the share,
\* its link count is still 1 and no ACL is written.
C2_SingleLinkRefused ==
  alive =>
    \A target \in ShareFiles(fs) :
      nlink(fs, fs[target].ino) = 1 =>
        LET r == _unshare_file(Machine, target, FALSE)
        IN /\ r.err = "FileNotFoundError"
           /\ r.fs = fs
           /\ r.iacl = iacl
           /\ \A k \in 1..Len(r.log) : r.log[k][1] \notin {"setfacl", "unlink"}

\* C2 witness: an add ran into a stale entry of link count 1 at its target,
\* the un-share was refused and the entry is still there with its one link.
C2_Witness ==
  /\ last.op = "add"
  /\ last.err = "FileNotFoundError"
  /\ last.efile \in ShareFiles(fs)
  /\ nlink(fs, fs[last.efile].ino) = 1
  /\ iacl[fs[last.efile].ino] # {}

\* the regular files and the directories beneath a directory d
FilesUnder(f, d) == {p \in DOMAIN f : Under(d, p) /\ f[p].kind = "file"}
DirsUnder(f, d) == {p \in DOMAIN f : Under(d, p) /\ f[p].kind = "dir"}

\* where the mirror of source directory d holds the path p beneath d
MirrorRoot(d) == join(directory, basename(d))
Mirror(d, p) == MirrorRoot(d) \o SubSeq(p, Len(d) + 1, Len(p))

\* the step is a call add([d]) on a directory d that returned
AddedDirectory(d) ==
  /\ nops' = nops + 1
  /\ last'.op = "add" /\ last'.items = <<d>> /\ last'.err = "none"
  /\ d \in DOMAIN fs /\ fs[d].kind = "dir"

\* the mirror of d holds every subdirectory of d
MirrorHasDirs(d) ==
  \A q \in DirsUnder(fs, d) : Mirror(d, q) \in DOMAIN fs' /\ fs'[Mirror(d, q)].kind = "dir"

\* the mirror of d holds a link to the inode of the file p of d
MirrorHasFile(d, p) ==
  /\ Mirror(d, p) \in DOMAIN fs'
  /\ fs'[Mirror(d, p)].kind = "file"
  /\ fs'[Mirror(d, p)].ino = fs[p].ino

\* C3 as claimed: after add([D]) returns every regular file under D has an
\* entry at the same relative path under share/basename(D) that names the
\* same inode, whose link count is at least one higher than before the add,
\* and every subdirectory of D exists in the mirror.
C3_AsClaimed ==
  [][\A d \in SourceDirs : AddedDirectory(d) =>
       /\ MirrorHasDirs(d)
       /\ \A p \in FilesUnder(fs, d) :
            /\ MirrorHasFile(d, p)
            /\ nlink(fs', fs[p].ino) >= nlink(fs, fs[p].ino) + 1]_vars

\* C3 amended: after add([D]) returns every subdirectory of D exists in the
\* mirror, and every regular file under D whose hardlink was not refused
\* for insufficient permission has an entry at the same relative path that
\* names the same inode; that inode has at least 2 links, and at least one
\* more than before the add when share/basename(D) did not exist before.
C3_Mirrored ==
  [][\A d \in SourceDirs : AddedDirectory(d) =>
       /\ MirrorHasDirs(d)
       /\ \A p \in FilesUnder(fs, d) :
            fs[p].ino \notin protected =>
              /\ MirrorHasFile(d, p)
              /\ nlink(fs', fs[p].ino) >= 2
              /\ MirrorRoot(d) \notin DOMAIN fs =>
                   nlink(fs', fs[p].ino) >= nlink(fs, fs[p].ino) + 1]_vars

\* C3 witness: add([data/D]) returned and the mirror holds the file two
\* levels down, linked to the inode of the original.
C3_Witness ==
  /\ last.op = "add" /\ last.items = <<<<"data", "D">>>> /\ last.err = "none"
  /\ <<"share", "D", "s", "g">> \in DOMAIN fs
  /\ <<"data", "D", "s", "g">> \in DOMAIN fs
  /\ fs[<<"share", "D", "s", "g">>].ino = fs[<<"data", "D", "s", "g">>].ino
  /\ nlink(fs, fs[<<"share", "D", "s", "g">>].ino) = 2

\* what the share holds: each entry beneath the share directory with its
\* kind, its inode and the link count of that inode
ShareView(f) ==
  [p \in {q \in DOMAIN f : Under(directory, q)} |->
     [kind |-> f[p].kind, ino |-> f[p].ino,
      nlink |-> IF f[p].kind = "file" THEN nlink(f, f[p].ino) ELSE 0]]

\* C4: an add that returned, followed at once by an add of the same items,
\* leaves the same entries at the same paths, linked to the same inodes
\* with the same link counts, and the second add raises nothing.
C4_AddIdempotent ==
  [][(/\ nops' = nops + 1
      /\ last.op = "add" /\ last.err = "none"
      /\ last'.op = "add" /\ last'.items = last.items)
     => /\ last'.err = "none"
        /\ ShareView(fs') = ShareView(fs)]_vars

\* C4 witness: add([data/D]) twice in a row; the second call found the
\* mirror in place, removed it and built it again.
C4_Witness ==
  /\ last.op = "add" /\ last.again /\ last.err = "none"
  /\ last.items = <<<<"data", "D">>>>
  /\ \E k \in 1..Len(last.log) : last.log[k] = <<"rmdir", <<"share", "D">>>>
  /\ <<"share", "D", "f">> \in DOMAIN fs

\* C5 as claimed: add([X]) on the fresh share followed by self_destruct()
\* removes the share and leaves every original with the link count and the
\* ACL it had before the add, when no file had link count 1 at removal
\* (the self_destruct returned).
C5_RoundTrip ==
  [][(/\ nops = 1 /\ nops' = 2
      /\ last.op = "add" /\ Len(last.items) = 1 /\ last.err = "none"
      /\ last'.op = "self_destruct" /\ last'.err = "none")
     => /\ directory \notin DOMAIN fs'
        /\ \A p \in SourceFiles :
             /\ p \in DOMAIN fs'
             /\ nlink(fs', fs'[p].ino) = 1
             /\ iacl'[fs'[p].ino] = acl0[fs'[p].ino]]_vars

\* the share's ambient permission entries: the ACL of the share directory
\* without the lock entry
Ambient == permissions(Machine) \ lock_acl

\* C6 as claimed: between any add, lock and unlock calls every entry
\* beneath the share directory carries the share's ambient entries, and the
\* lock entry as well while the share is locked.
C6_PermissionInvariant ==
  \A p \in DOMAIN fs : Under(directory, p) =>
    /\ Ambient \subseteq AclAt(Machine, p)
    /\ locked => AceLock \in AclAt(Machine, p)

\* C7: after lock() the share directory and every entry beneath it carry
\* the deny-EVERYONE entry; after unlock() none of them carries it.
C7_LockCoversShare ==
  /\ (last.op = "lock" /\ last.err = "none") =>
       \A p \in SharePaths(fs) : AceLock \in AclAt(Machine, p)
  /\ (last.op = "unlock" /\ last.err = "none") =>
       \A p \in SharePaths(fs) : AceLock \notin AclAt(Machine, p)

\* C7 witness: lock() returned on a share that holds a mirrored tree with
\* a file two levels down.
C7_Witness ==
  /\ last.op = "lock" /\ last.err = "none"
  /\ <<"share", "D", "s", "g">> \in DOMAIN fs
  /\ AceLock \in iacl[fs[<<"share", "D", "s", "g">>].ino]

\* the ACL of every entry of the share, the lock entry left out
NonDeny(st) == [p \in SharePaths(st.fs) |-> AclAt(st, p) \ lock_acl]

\* C8: lock() followed by unlock() leaves, for every entry of the share,
\* the same ACL entries other than the lock entry, the same tree and the
\* same link counts.
C8_LockUnlockNoOp ==
  alive =>
    LET r == unlock(lock(Machine))
    IN /\ r.err = "none"
       /\ NonDeny(r) = NonDeny(Machine)
       /\ DOMAIN r.fs = DOMAIN fs
       /\ ShareView(r.fs) = ShareView(fs)

\* C8 witness: lock() then unlock() ran on a share that holds a file which
\* still carries the share's and its owner's entries.
C8_Witness ==
  /\ prev = "lock"
  /\ last.op = "unlock" /\ last.err = "none"
  /\ <<"share", "f">> \in DOMAIN fs
  /\ {AceAmbient, AceOwner} \subseteq iacl[fs[<<"share", "f">>].ino]

\* two machine states show the same filesystem
SameFilesystem(a, b) == a.fs = b.fs /\ a.iacl = b.iacl /\ a.err = b.err

\* C9: lock(); lock() leaves the filesystem a single lock() leaves,
\* unlock(); unlock() the one a single unlock() leaves, and one unlock()
\* after two lock() calls leaves no entry of the share with the lock entry.
C9_ToggleIdempotent ==
  alive =>
    /\ SameFilesystem(lock(lock(Machine)), lock(Machine))
    /\ SameFilesystem(unlock(unlock(Machine)), unlock(Machine))
    /\ LET r == unlock(lock(lock(Machine)))
       IN \A p \in SharePaths(r.fs) : AceLock \notin AclAt(r, p)

\* C9 witness: lock() ran twice in a row on a share that holds a mirrored
\* directory, and every entry carries the lock entry.
C9_Witness ==
  /\ last.op = "lock" /\ last.again /\ last.err = "none"
  /\ <<"share", "D", "f">> \in DOMAIN fs
  /\ \A p \in SharePaths(fs) : AceLock \in AclAt(Machine, p)

\* C10 as claimed: when self_destruct without force meets a file of link
\* count 1, that file stays in place with its directories, and every other
\* file of the share that has two or more links is un-shared by the same
\* call all the same.
C10_PerItemFailure ==
  (last.op = "self_destruct" /\ ~last.force /\ last.err = "FileNotFoundError") =>
    /\ last.efile \in ShareFiles(fs)
    /\ \A k \in 1..Len(last.efile) : SubSeq(last.efile, 1, k) \in DOMAIN fs
    /\ \A p \in ShareFiles(fs) : nlink(fs, fs[p].ino) = 1

\* the step is a call add([x]) of a file or directory x whose place in the
\* share, share/basename(x), is taken
AddedOverStale(x) ==
  /\ nops' = nops + 1
  /\ last'.op = "add" /\ last'.items = <<x>>
  /\ x \in DOMAIN fs
  /\ MirrorRoot(x) \in DOMAIN fs

\* the log of the call shows the stale entry at t removed (unlink of a
\* file, rmdir of a directory) and, after that, t made again exactly once
Replaced(log, t) ==
  \E k \in 1..Len(log) :
    /\ log[k] \in {<<"unlink", t>>, <<"rmdir", t>>}
    /\ Cardinality({j \in 1..Len(log) : j > k /\ log[j] \in {<<"link", t>>, <<"mkdir", t>>}}) = 1

\* the call returned with the entry of x in place of the stale one
Recovered(x) ==
  /\ last'.err = "none"
  /\ Replaced(last'.log, MirrorRoot(x))
  /\ MirrorRoot(x) \in DOMAIN fs'
  /\ fs'[MirrorRoot(x)].kind = fs[x].kind
  /\ fs[x].kind = "file" => fs'[MirrorRoot(x)].ino = fs[x].ino
  /\ fs[x].kind = "dir" => MirrorHasDirs(x)

\* every file of the stale entry at t has a link outside of t
LinkedOutside(t) ==
  \A q \in DOMAIN fs :
    (IsPrefix(t, q) /\ fs[q].kind = "file") =>
      \E p \in DOMAIN fs : ~IsPrefix(t, p) /\ fs[p].kind = "file" /\ fs[p].ino = fs[q].ino

DistinctNamePairs ==
  {<<(<<"data", "f">>), (<<"data", "D", "s", "g">>)>>,
   <<(<<"data", "D">>), (<<"data", "D", "s">>)>>,
   <<(<<"data", "D", "f">>), (<<"data", "D">>)>>,
   <<(<<"data", "x">>), (<<"data", "f">>)>>}
OrderPairs == DistinctNamePairs \cup {<<(<<"data", "f">>), (<<"data", "D", "f">>)>>}

\* add of the two items of pair in the listed order and in the other order
AddListed(pair, rev) == add(Machine, pair, rev)
AddSwapped(pair, rev) == add(Machine, <<pair[2], pair[1]>>, rev)

\* both calls end alike: the same entries, inodes and ACLs, the same outcome
SameOutcome(a, b) ==
  /\ a.fs = b.fs
  /\ a.iacl = b.iacl
  /\ a.err = b.err

MirroredOriginals(f) ==
  {p \in SourceFiles \cap DOMAIN f :
     \E q \in ShareFiles(f) : f[q].ino = f[p].ino}

\* C13 as claimed: lock() and unlock() leave every ACL outside the share
\* as it is, and the ACL seen at the original path of every mirrored file
\* is the same after lock() as before it.
C13_LockFrame ==
  [][(nops' = nops + 1 /\ last'.op \in {"lock", "unlock"}) =>
       /\ \A p \in DOMAIN fs : ~IsPrefix(directory, p) /\ fs[p].kind = "dir" =>
            fs'[p].acl = fs[p].acl
       /\ last'.op = "lock" =>
            \A p \in MirroredOriginals(fs) : iacl'[fs[p].ino] = iacl[fs[p].ino]]_vars

\* the step is one call Share(directory, exist_ok)
Constructed ==
  /\ nops' = nops + 1
  /\ last'.op = "__init__"

\* C14: Share(directory, exist_ok) over a plain file raises
\* IllegalShareSetupError and creates nothing; over a directory that is
\* there, with exist_ok false, it raises FileExistsError and changes
\* nothing; in every other case it returns and the directory exists.
C14_Construction ==
  [][Constructed =>
       /\ isfile(Machine, directory) =>
            last'.err = "IllegalShareSetupError" /\ fs' = fs /\ iacl' = iacl
       /\ (isdir(Machine, directory) /\ ~last'.force) =>
            last'.err = "FileExistsError" /\ fs' = fs /\ iacl' = iacl
       /\ (~isfile(Machine, directory) /\ (last'.force \/ ~isdir(Machine, directory))) =>
            /\ last'.err = "none"
            /\ directory \in DOMAIN fs' /\ fs'[directory].kind = "dir"
            /\ \A p \in DOMAIN fs : p \in DOMAIN fs' /\ fs'[p] = fs[p]]_vars

\* C14 witness: the share was destroyed, a plain file took its path, and
\* the construction over it raised IllegalShareSetupError; the file is
\* still a file.
C14_Witness ==
  /\ last.op = "__init__"
  /\ last.err = "IllegalShareSetupError"
  /\ directory \in DOMAIN fs /\ fs[directory].kind = "file"
  /\ ~alive

\* the items of a list that are files or directories when add is called
HandledItems(items) ==
  LET Handled(i) == i \in DOMAIN fs
  IN SelectSeq(items, Handled)

\* the step is a call of add with an item that is neither a file nor a
\* directory
AddedUnhandled ==
  /\ nops' = nops + 1
  /\ last'.op = "add"
  /\ \E k \in 1..Len(last'.items) : last'.items[k] \notin DOMAIN fs

\* the item x of the call is mirrored
ItemMirrored(x) ==
  /\ MirrorRoot(x) \in DOMAIN fs'
  /\ fs'[MirrorRoot(x)].kind = fs[x].kind
  /\ fs[x].kind = "file" => fs'[MirrorRoot(x)].ino = fs[x].ino
  /\ fs[x].kind = "dir" =>
       /\ MirrorHasDirs(x)
       /\ \A p \in FilesUnder(fs, x) : fs[p].ino \notin protected => MirrorHasFile(x, p)

\* C15: an item of add that is neither a file nor a directory is skipped:
\* the call ends as the call without that item ends, with the same
\* entries, inodes, ACLs and outcome, so nothing is made in the share for
\* the item; when the call returns, every file item and every directory
\* item of it is mirrored.
C15_UnhandledSkipped ==
  [][AddedUnhandled =>
       /\ \E rev \in BOOLEAN :
            LET r == add(Machine, HandledItems(last'.items), rev)
            IN /\ fs' = r.fs
               /\ iacl' = r.iacl
               /\ last'.err = r.err
       /\ last'.err = "none" =>
            /\ \A k \in 1..Len(last'.items) :
                 last'.items[k] \in DOMAIN fs => ItemMirrored(last'.items[k])
            /\ \A k \in 1..Len(last'.items) :
                 last'.items[k] \notin DOMAIN fs =>
                   \E j \in 1..Len(last'.log) :
                     last'.log[j] = <<"logging.error", last'.items[k]>>]_vars

\* C15 witness: add([data/x, data/D]) returned; data/x does not exist and
\* was logged, share/x was not made, and the mirror of data/D is in place.
C15_Witness ==
  /\ last.op = "add" /\ last.items = <<<<"data", "x">>, <<"data", "D">>>>
  /\ last.err = "none"
  /\ last.log[Len(last.log)] = <<"logging.error", <<"data", "x">>>>
  /\ <<"share", "x">> \notin DOMAIN fs
  /\ <<"share", "D", "f">> \in DOMAIN fs
  /\ <<"share", "D", "s">> \in DOMAIN fs

\* in the log, before position k, directory d was made and not removed since
MadeBefore(log, d, k) ==
  \E i \in 1..(k - 1) :
    /\ log[i] = <<"mkdir", d>>
    /\ \A j \in (i + 1)..(k - 1) : log[j] # <<"rmdir", d>>

\* in the log, before position k, directory d was made, then given its
\* permissions, and not removed since
MadeAndPermittedBefore(log, d, k) ==
  \E i \in 1..(k - 1) :
    /\ log[i] = <<"mkdir", d>>
    /\ \E j \in (i + 1)..(k - 1) : log[j] = <<"setfacl", d>>
    /\ \A j \in (i + 1)..(k - 1) : log[j] # <<"rmdir", d>>

\* the directory items of the last call
DirectoryItems == {last.items[k] : k \in 1..Len(last.items)} \cap SourceDirs

\* C16: in every add, each hardlink made below a mirror directory comes
\* after its parent directory was made in the share and given the share's
\* permissions, and the top directory of a mirror is made before any other
\* directory or link of that mirror.
C16_DirectoryBeforeLink ==
  last.op = "add" =>
    \A k \in 1..Len(last.log) :
      /\ (last.log[k][1] = "link" /\ dirname(last.log[k][2]) # directory) =>
           MadeAndPermittedBefore(last.log, dirname(last.log[k][2]), k)
      /\ \A d \in DirectoryItems :
           (last.log[k][1] \in {"link", "mkdir"} /\ Under(MirrorRoot(d), last.log[k][2])) =>
             MadeBefore(last.log, MirrorRoot(d), k)

\* C16 witness: add([data/D]) linked share/D/s/g after it made share/D and
\* share/D/s.
C16_Witness ==
  /\ last.op = "add" /\ last.items = <<<<"data", "D">>>>
  /\ \E i, j, k \in 1..Len(last.log) :
       /\ i < j /\ j < k
       /\ last.log[i] = <<"mkdir", <<"share", "D">>>>
       /\ last.log[j] = <<"mkdir", <<"share", "D", "s">>>>
       /\ last.log[k] = <<"link", <<"share", "D", "s", "g">>>>

\* C17: a file is un-shared by writing its ACL without the share's entries
\* and unlinking it right after: in every add and self_destruct each unlink
\* follows the ACL write to the same path, and an un-share that goes ahead
\* (force, or link count 2 or more) does these two things in this order and
\* leaves no entry of the share on the inode.
C17_PermissionsBeforeUnlink ==
  /\ last.op \in {"add", "self_destruct"} =>
       \A k \in 1..Len(last.log) :
         last.log[k][1] = "unlink" =>
           k > 1 /\ last.log[k - 1] = <<"setfacl", last.log[k][2]>>
  /\ alive =>
       \A target \in ShareFiles(fs) : \A force \in BOOLEAN :
         (force \/ nlink(fs, fs[target].ino) >= 2) =>
           LET r == _unshare_file(Machine, target, force)
           IN /\ r.err = "none"
              /\ r.log = <<(<<"setfacl", target>>), (<<"unlink", target>>)>>
              /\ target \notin DOMAIN r.fs
              /\ nlink(r.fs, fs[target].ino) >= 1 =>
                   r.iacl[fs[target].ino] \cap permissions(Machine) = {}

\* C17 witness: self_destruct returned after it wrote the ACL of share/f
\* and then unlinked share/f; data/f is left without the share's entries.
C17_Witness ==
  /\ last.op = "self_destruct" /\ last.err = "none"
  /\ \E k \in 2..Len(last.log) :
       /\ last.log[k] = <<"unlink", <<"share", "f">>>>
       /\ last.log[k - 1] = <<"setfacl", <<"share", "f">>>>
  /\ <<"data", "f">> \in DOMAIN fs
  /\ AceAmbient \notin iacl[fs[<<"data", "f">>].ino]

\* the step is one call of self_destruct
Destructed ==
  /\ nops' = nops + 1
  /\ last'.op = "self_destruct"

\* every rmdir of the call came after everything beneath the directory was
\* unlinked or removed
RmdirOnEmpty ==
  \A k \in 1..Len(last'.log) :
    last'.log[k][1] = "rmdir" =>
      \A q \in DOMAIN fs :
        Under(last'.log[k][2], q) =>
          \E j \in 1..(k - 1) : last'.log[j] \in {<<"unlink", q>>, <<"rmdir", q>>}

\* the call returned, the share directory and all beneath it are gone, and
\* everything outside the share is as it was
ShareGone ==
  /\ last'.err = "none"
  /\ RmdirOnEmpty
  /\ \A p \in DOMAIN fs' : ~IsPrefix(directory, p)
  /\ \A p \in DOMAIN fs : ~IsPrefix(directory, p) => p \in DOMAIN fs' /\ fs'[p] = fs[p]

\* C18 as claimed: when force is set or every file under the share has a
\* link count of 2 or more, self_destruct returns, removes only empty
\* directories, and leaves nothing of the share while every path outside
\* the share is still there.
C18_AsClaimed ==
  [][(/\ Destructed
      /\ last'.force \/ \A q \in ShareFiles(fs) : nlink(fs, fs[q].ino) >= 2)
     => ShareGone]_vars

\* C18 amended: when force is set or every file under the share has a
\* hardlink outside the share, self_destruct returns, removes only empty
\* directories, and leaves nothing of the share while every path outside
\* the share is still there.
C18_TreeUnshared ==
  [][(/\ Destructed
      /\ last'.force \/ LinkedOutside(directory))
     => ShareGone]_vars

\* C18 witness: self_destruct without force took down a share that held a
\* mirror two levels deep: the files first, share/D/s before share/D, the
\* share directory last; the originals are in place.
C18_Witness ==
  /\ last.op = "self_destruct" /\ ~last.force /\ last.err = "none"
  /\ directory \notin DOMAIN fs
  /\ \E i, j, k \in 1..Len(last.log) :
       /\ i < j /\ j < k
       /\ last.log[i] = <<"unlink", <<"share", "D", "f">>>>
       /\ last.log[j] = <<"rmdir", <<"share", "D", "s">>>>
       /\ last.log[k] = <<"rmdir", <<"share", "D">>>>
  /\ last.log[Len(last.log)] = <<"rmdir", directory>>
  /\ <<"data", "D", "f">> \in DOMAIN fs

\* the path p of the share is at or under share/basename(x) for an item x
\* of the call
InItemSubtree(items, p) ==
  \E k \in 1..Len(items) : IsPrefix(MirrorRoot(items[k]), p)

\* C19: add touches only the subtrees of the share named after its items:
\* whatever else the share holds is, after the add, at the same path with
\* the same kind and inode, whether the add met a stale entry or not and
\* whether it raised or not.
C19_AddFrame ==
  [][(nops' = nops + 1 /\ last'.op = "add") =>
       \A p \in SharePaths(fs) :
         ~InItemSubtree(last'.items, p) =>
           /\ p \in DOMAIN fs'
           /\ fs'[p].kind = fs[p].kind
           /\ fs'[p].ino = fs[p].ino]_vars

\* C19 witness: add([data/D]) found the mirror share/D in place, removed it
\* and built it again, and share/f, linked by an earlier call, is still
\* there on the inode of data/f.
C19_Witness ==
  /\ last.op = "add" /\ last.items = <<<<"data", "D">>>>
  /\ Replaced(last.log, <<"share", "D">>)
  /\ <<"share", "f">> \in DOMAIN fs /\ <<"data", "f">> \in DOMAIN fs
  /\ fs[<<"share", "f">>].ino = fs[<<"data", "f">>].ino

====
